---- MODULE Spec2Model ----
(***************************************************************************)
(* Model of MyLibrary: a single-page book library persisted as one JSON    *)
(* array under one localStorage key.  Strings are sequences of characters, *)
(* the storage slot holds the serialised text (an array of objects, each   *)
(* an ordered list of key/value members), and the handlers are translated  *)
(* statement by statement from the script.                                 *)
(***************************************************************************)
EXTENDS Integers, Sequences, FiniteSets, TLC

VARIABLES storage, now, cards, modalBookId, editForm, errors, pending, last,
          ref, tabs

vars == <<storage, now, cards, modalBookId, editForm, errors, pending, last,
          ref, tabs>>

(***************************************************************************)
(* Bounds of the model.                                                    *)
(***************************************************************************)
MaxClock == 1
MaxRand == 1
MaxBooks == 2
MaxPending == 1
MaxSuspended == 2

(***************************************************************************)
(* Strings.                                                                *)
(***************************************************************************)
WhiteSpace == {" ", "\t", "\n"}

Rep(c, n) == [i \in 1..n |-> c]

RECURSIVE TrimStart(_)
TrimStart(s) ==
    IF s # <<>> /\ Head(s) \in WhiteSpace THEN TrimStart(Tail(s)) ELSE s

RECURSIVE TrimEnd(_)
TrimEnd(s) ==
    IF s # <<>> /\ s[Len(s)] \in WhiteSpace
    THEN TrimEnd(SubSeq(s, 1, Len(s) - 1))
    ELSE s

\* String.prototype.trim
Trim(s) == TrimEnd(TrimStart(s))

\* String.prototype.startsWith
StartsWith(s, p) == Len(s) >= Len(p) /\ SubSeq(s, 1, Len(p)) = p

\* the empty string is the only falsy string
Truthy(s) == s # <<>>

(***************************************************************************)
(* Program constants.                                                      *)
(***************************************************************************)
MaxTitleLength == 200
MaxAuthorLength == 100
maxSize == 5 * 1024 * 1024

ImagePrefix == <<"i", "m", "a", "g", "e", "/">>

ErrTitleRequired == "Le titre est requis"
ErrTitleEmpty == "Le titre ne peut pas etre vide"
ErrTitleTooLong == "Le titre ne peut pas depasser 200 caracteres"
ErrAuthorRequired == "Le nom de l'auteur est requis"
ErrAuthorEmpty == "Le nom de l'auteur ne peut pas etre vide"
ErrAuthorTooLong == "Le nom de l'auteur ne peut pas depasser 100 caracteres"
ErrCoverRequired == "L'image de couverture est requise"
ErrCoverType == "Le fichier doit etre une image"
ErrCoverSize == "L'image ne doit pas depasser 5MB"
ErrCoverLoad == "Erreur lors du chargement de l'image"
ErrNotFound == "Livre introuvable"

(***************************************************************************)
(* Validation.                                                             *)
(***************************************************************************)
\* the limit applied to the raw string
validateBookTitleRaw(title) ==
    IF ~Truthy(title) THEN [valid |-> FALSE, error |-> ErrTitleRequired]
    ELSE IF Len(Trim(title)) = 0 THEN [valid |-> FALSE, error |-> ErrTitleEmpty]
    ELSE IF Len(title) > MaxTitleLength
         THEN [valid |-> FALSE, error |-> ErrTitleTooLong]
    ELSE [valid |-> TRUE, error |-> ""]

validateBookTitle(title) ==
    IF ~Truthy(title) THEN [valid |-> FALSE, error |-> ErrTitleRequired]
    ELSE IF Len(Trim(title)) = 0 THEN [valid |-> FALSE, error |-> ErrTitleEmpty]
    ELSE IF Len(Trim(title)) > MaxTitleLength
         THEN [valid |-> FALSE, error |-> ErrTitleTooLong]
    ELSE [valid |-> TRUE, error |-> ""]

validateBookAuthor(author) ==
    IF ~Truthy(author) THEN [valid |-> FALSE, error |-> ErrAuthorRequired]
    ELSE IF Len(Trim(author)) = 0 THEN [valid |-> FALSE, error |-> ErrAuthorEmpty]
    ELSE IF Len(Trim(author)) > MaxAuthorLength
         THEN [valid |-> FALSE, error |-> ErrAuthorTooLong]
    ELSE [valid |-> TRUE, error |-> ""]

\* a File of the cover input, or null
NullFile == [isNull |-> TRUE, type |-> <<>>, size |-> 0, content |-> <<>>]
File(type, size, content) ==
    [isNull |-> FALSE, type |-> type, size |-> size, content |-> content]

\* a limit that excludes the size maxSize itself
validateImageFileBelow(file) ==
    IF file.isNull THEN [valid |-> FALSE, error |-> ErrCoverRequired]
    ELSE IF ~StartsWith(file.type, ImagePrefix)
         THEN [valid |-> FALSE, error |-> ErrCoverType]
    ELSE IF file.size >= maxSize THEN [valid |-> FALSE, error |-> ErrCoverSize]
    ELSE [valid |-> TRUE, error |-> ""]

validateImageFile(file) ==
    IF file.isNull THEN [valid |-> FALSE, error |-> ErrCoverRequired]
    ELSE IF ~StartsWith(file.type, ImagePrefix)
         THEN [valid |-> FALSE, error |-> ErrCoverType]
    ELSE IF file.size > maxSize THEN [valid |-> FALSE, error |-> ErrCoverSize]
    ELSE [valid |-> TRUE, error |-> ""]

\* the string FileReader.readAsDataURL resolves with
DataURL(file) == <<"data:">> \o file.type \o <<";base64,">> \o file.content

(***************************************************************************)
(* Book records and the persisted text.                                    *)
(***************************************************************************)
NoId == <<>>

Book(id, title, author, coverImage, createdAt, updatedAt) ==
    [id |-> id, title |-> title, author |-> author, coverImage |-> coverImage,
     createdAt |-> createdAt, updatedAt |-> updatedAt]

\* JSON.stringify of one record: its members in property order
StringifyBook(b) ==
    << <<"id", b.id>>, <<"title", b.title>>, <<"author", b.author>>,
       <<"coverImage", b.coverImage>>, <<"createdAt", b.createdAt>>,
       <<"updatedAt", b.updatedAt>> >>

JSONStringify(books) == [i \in 1..Len(books) |-> StringifyBook(books[i])]

\* the value of member k of a parsed object (the last one wins)
Member(obj, k) ==
    LET js == {j \in 1..Len(obj) : obj[j][1] = k}
    IN obj[CHOOSE j \in js : \A m \in js : m <= j][2]

ParseBook(obj) ==
    Book(Member(obj, "id"), Member(obj, "title"), Member(obj, "author"),
         Member(obj, "coverImage"), Member(obj, "createdAt"),
         Member(obj, "updatedAt"))

JSONParse(text) == [i \in 1..Len(text) |-> ParseBook(text[i])]

\* what JSON.parse returns for a text that is valid JSON but not an array
JsNull == [js |-> "null"]
JsObject == [js |-> "object"]
JsNumber == [js |-> "number"]

\* the content of the slot STORAGE_KEY: no item, the empty string, the text
\* of an array of records, a text that is not JSON, the text of a value
\* that is not an array
AbsentSlot == [kind |-> "absent", val |-> <<>>]
EmptySlot == [kind |-> "empty", val |-> <<>>]
TextSlot(text) == [kind |-> "text", val |-> text]
MalformedSlot(text) == [kind |-> "malformed", val |-> text]
ValueSlot(v) == [kind |-> "value", val |-> v]

\* a catch that recovers the records the damaged text held
getBooksSalvages(slot) ==
    IF slot.kind \in {"absent", "empty"} THEN <<>>
    ELSE IF slot.kind = "malformed" THEN JSONParse(slot.val)
    ELSE IF slot.kind = "value" THEN slot.val
    ELSE JSONParse(slot.val)

\* !booksJson returns [], a throw of JSON.parse is caught and returns [],
\* and whatever JSON.parse returns is returned as it is
getBooks(slot) ==
    IF slot.kind \in {"absent", "empty"} THEN <<>>
    ELSE IF slot.kind = "malformed" THEN <<>>
    ELSE IF slot.kind = "value" THEN slot.val
    ELSE JSONParse(slot.val)

\* Array.isArray(getBooks()): the array methods push, findIndex, filter and
\* forEach exist on the returned value
IsArray(slot) == slot.kind # "value"

\* saveBooks: setItem either stores the text or throws, and the throw is
\* caught (console.error and alert), leaving the slot as it was
saveBooks(slot, books, setFails) ==
    IF setFails THEN slot ELSE TextSlot(JSONStringify(books))

\* displayBooks: the cards rendered from the slot
displayBooks(slot) == getBooks(slot)

\* the values a throw of an array method on a non-array leaves behind
Threw(op, bookId, title, author, file, cover) ==
    [op |-> op, ret |-> "threw", bookId |-> bookId, title |-> title,
     author |-> author, file |-> file, cover |-> cover, wrote |-> FALSE,
     saved |-> FALSE, had |-> FALSE]

(***************************************************************************)
(* Clock and identifiers.                                                  *)
(***************************************************************************)
\* a clock that may be set back between two readings
DateNowAny(t) == 0..MaxClock

\* the values a call of Date.now() can return when the last reading was t:
\* the clock is taken never to run backwards
DateNow(t) == {u \in t..MaxClock : u <= t + 1}

\* Math.random().toString(36).substr(2, 9)
RandomSuffix == 0..(MaxRand - 1)

generateBookId(t, r) == <<t, r>>

BookIds == {generateBookId(t, r) : t \in 0..MaxClock, r \in RandomSuffix}

\* a search that falls back to the last record
FindIndexOrLast(books, bookId) ==
    LET js == {j \in 1..Len(books) : books[j].id = bookId}
    IN IF js = {} THEN Len(books) ELSE CHOOSE j \in js : \A m \in js : j <= m

\* Array.prototype.findIndex, 0 standing for -1
FindIndex(books, bookId) ==
    LET js == {j \in 1..Len(books) : books[j].id = bookId}
    IN IF js = {} THEN 0 ELSE CHOOSE j \in js : \A m \in js : j <= m

\* books.filter(b => b.id === bookId)
FilterKeep(books, bookId) == SelectSeq(books, LAMBDA b : b.id = bookId)

\* books.splice(books.findIndex(b => b.id === bookId), 1): an index of -1
\* removes the last record
SpliceOut(books, bookId) ==
    LET js == {j \in 1..Len(books) : books[j].id = bookId}
        k == IF js = {} THEN Len(books)
             ELSE CHOOSE j \in js : \A m \in js : j <= m
    IN SubSeq(books, 1, k - 1) \o SubSeq(books, k + 1, Len(books))

\* books.filter(b => b.id !== bookId)
FilterOut(books, bookId) == SelectSeq(books, LAMBDA b : b.id # bookId)

(***************************************************************************)
(* Error elements of the two forms.                                        *)
(***************************************************************************)
ErrorIds == {"title-error", "author-error", "cover-error",
             "edit-title-error", "edit-author-error", "edit-cover-error"}

showError(errs, errorId, message) == [errs EXCEPT ![errorId] = message]
clearError(errs, errorId) == [errs EXCEPT ![errorId] = ""]

\* show the message of a failed validation, clear the element otherwise
Report(errs, errorId, validation) ==
    IF validation.valid THEN clearError(errs, errorId)
    ELSE showError(errs, errorId, validation.error)

\* a validation that returns at the first invalid field
validateFormFieldsFirst(errs, title, author, imageFile) ==
    LET e1 == Report(errs, "title-error", validateBookTitle(title))
        e2 == Report(e1, "author-error", validateBookAuthor(author))
        e3 == Report(e2, "cover-error", validateImageFile(imageFile))
    IN [isValid |-> /\ validateBookTitle(title).valid
                    /\ validateBookAuthor(author).valid
                    /\ validateImageFile(imageFile).valid,
        errors |-> IF ~validateBookTitle(title).valid THEN e1
                   ELSE IF ~validateBookAuthor(author).valid THEN e2
                   ELSE e3]

validateFormFields(errs, title, author, imageFile) ==
    LET e1 == Report(errs, "title-error", validateBookTitle(title))
        e2 == Report(e1, "author-error", validateBookAuthor(author))
        e3 == Report(e2, "cover-error", validateImageFile(imageFile))
    IN [isValid |-> /\ validateBookTitle(title).valid
                    /\ validateBookAuthor(author).valid
                    /\ validateImageFile(imageFile).valid,
        errors |-> e3]

resetAddBookForm(errs) ==
    clearError(clearError(clearError(errs, "cover-error"), "title-error"),
               "author-error")

(***************************************************************************)
(* The record of the operation that completed last.                        *)
(***************************************************************************)
Outcome(op, ret, bookId, title, author, file, cover, wrote, saved, had) ==
    [op |-> op, ret |-> ret, bookId |-> bookId, title |-> title,
     author |-> author, file |-> file, cover |-> cover, wrote |-> wrote,
     saved |-> saved, had |-> had]

\* the pages that share the key STORAGE_KEY, each with the array its
\* addBook or deleteBook is working on between getItem and setItem
Writers == {1, 2}

\* a page at rest: what it shows and how its last operation ended
Idle(shown, op, bookId, saved) ==
    [pc |-> "idle", op |-> op, bookId |-> bookId, title |-> <<>>,
     author |-> <<>>, cover |-> <<>>, books |-> <<>>, had |-> FALSE,
     saved |-> saved, cards |-> shown]

Init ==
    /\ tabs = [w \in Writers |->
                  Idle(displayBooks(AbsentSlot), "none", NoId, FALSE)]
    /\ storage = AbsentSlot
    /\ now = 0
    /\ cards = displayBooks(AbsentSlot)
    /\ modalBookId = NoId
    /\ editForm = [bookId |-> NoId, existingImage |-> <<>>]
    /\ errors = [e \in ErrorIds |-> ""]
    /\ pending = <<>>
    /\ last = Outcome("init", "none", NoId, <<>>, <<>>, NullFile, <<>>,
                      FALSE, FALSE, FALSE)
    /\ ref = <<>>

(***************************************************************************)
(* addBook.                                                                *)
(***************************************************************************)
\* the object literal built by addBook
newBook(id, title, author, coverImageDataURL, createdAt, updatedAt) ==
    Book(id, Trim(title), Trim(author),
         IF Truthy(coverImageDataURL) THEN coverImageDataURL ELSE <<>>,
         createdAt, updatedAt)

\* an array that holds the new record alone: what a handler would save
\* had it read the library before its suspension, when it was empty
pushAlone(books, b) == <<b>>

\* books.push(newBook)
push(books, b) == Append(books, b)

\* the reference list: Add appends at the end
RefAdd(r, b) == r \o <<b>>

\* books.push on a value that is not an array throws a TypeError, after
\* the record has been built and before anything is saved or reset
addBook(errs, title, author, file, coverImageDataURL, pend) ==
    /\ IsArray(storage) => Len(getBooks(storage)) < MaxBooks
    /\ \E r \in RandomSuffix, setFails \in BOOLEAN :
       \E t1 \in DateNow(now) : \E t2 \in DateNow(t1) : \E t3 \in DateNow(t2) :
          IF ~IsArray(storage)
          THEN /\ now' = t3
               /\ errors' = errs
               /\ pending' = pend
               /\ last' = Threw("add", generateBookId(t1, r), title, author,
                                file, coverImageDataURL)
               /\ UNCHANGED <<storage, cards, modalBookId, editForm, ref, tabs>>
          ELSE
          LET books == getBooks(storage)
              b == newBook(generateBookId(t1, r), title, author,
                           coverImageDataURL, t2, t3)
              slot == saveBooks(storage, push(books, b), setFails)
          IN /\ storage' = slot
             /\ now' = t3
             /\ cards' = displayBooks(slot)
             /\ errors' = resetAddBookForm(errs)
             /\ pending' = pend
             /\ last' = Outcome("add", "true", b.id, title, author, file,
                                coverImageDataURL, TRUE, ~setFails,
                                FindIndex(books, b.id) # 0)
             /\ ref' = IF setFails THEN ref ELSE RefAdd(ref, b)
             /\ UNCHANGED <<modalBookId, editForm, tabs>>

(***************************************************************************)
(* The submit handler of add-book-form.                                    *)
(***************************************************************************)
RemoveAt(q, i) == SubSeq(q, 1, i - 1) \o SubSeq(q, i + 1, Len(q))

Suspended(kind, bookId, title, author, file) ==
    [kind |-> kind, bookId |-> bookId, title |-> title, author |-> author,
     file |-> file, gone |-> FALSE]

\* up to the suspension on fileToDataURL: a valid submission always has a file;
\* room: how many handlers the model lets wait at once
SubmitAddWithin(room, title, author, imageFile) ==
    LET v == validateFormFields(errors, title, author, imageFile)
    IN /\ errors' = v.errors
       /\ IF ~v.isValid
          THEN /\ last' = Outcome("submitAdd", "invalid", NoId, title, author,
                                  imageFile, <<>>, FALSE, FALSE, FALSE)
               /\ UNCHANGED pending
          ELSE /\ Len(pending) < room
               /\ pending' = Append(pending, Suspended("add", NoId, title,
                                                       author, imageFile))
               /\ last' = Outcome("submitAdd", "pending", NoId, title, author,
                                  imageFile, <<>>, FALSE, FALSE, FALSE)
       /\ UNCHANGED <<storage, now, cards, modalBookId, editForm, ref, tabs>>

SubmitAddOn(title, author, imageFile) ==
    SubmitAddWithin(MaxPending, title, author, imageFile)

\* Inputs: the <<title, author, file>> the user may have entered
SubmitAdd(Inputs) ==
    \E in \in Inputs : SubmitAddOn(in[1], in[2], in[3])

\* the same handler, with several submissions waiting at once
SubmitAddSeveral(Inputs) ==
    \E in \in Inputs : SubmitAddWithin(MaxSuspended, in[1], in[2], in[3])

\* fileToDataURL resolved: the handler goes on into addBook
AddFileLoaded ==
    \E i \in 1..Len(pending) :
        /\ pending[i].kind = "add"
        /\ addBook(errors, pending[i].title, pending[i].author,
                   pending[i].file, DataURL(pending[i].file),
                   RemoveAt(pending, i))

\* fileToDataURL rejected: the handler shows the error and returns
AddFileFailed ==
    \E i \in 1..Len(pending) :
        /\ pending[i].kind = "add"
        /\ errors' = showError(errors, "cover-error", ErrCoverLoad)
        /\ pending' = RemoveAt(pending, i)
        /\ last' = Outcome("submitAdd", "aborted", NoId, pending[i].title,
                           pending[i].author, pending[i].file, <<>>, FALSE,
                           FALSE, FALSE)
        /\ UNCHANGED <<storage, now, cards, modalBookId, editForm, ref, tabs>>

(***************************************************************************)
(* updateBook.                                                             *)
(***************************************************************************)
\* coverImage: coverImageDataURL, without the fallback
updatedBookNoFallback(old, title, author, coverImageDataURL, t) ==
    [old EXCEPT !.title = Trim(title),
                !.author = Trim(author),
                !.coverImage = coverImageDataURL,
                !.updatedAt = t]

\* title and author stored as they were entered
updatedBookUntrimmed(old, title, author, coverImageDataURL, t) ==
    [old EXCEPT !.title = title,
                !.author = author,
                !.coverImage = IF Truthy(coverImageDataURL)
                               THEN coverImageDataURL
                               ELSE old.coverImage,
                !.updatedAt = t]

\* updatedAt left as it was
updatedBookKeepsStamp(old, title, author, coverImageDataURL, t) ==
    [old EXCEPT !.title = Trim(title),
                !.author = Trim(author),
                !.coverImage = IF Truthy(coverImageDataURL)
                               THEN coverImageDataURL
                               ELSE old.coverImage]

\* the object literal assigned to books[bookIndex]
updatedBook(old, title, author, coverImageDataURL, t) ==
    [old EXCEPT !.title = Trim(title),
                !.author = Trim(author),
                !.coverImage = IF Truthy(coverImageDataURL)
                               THEN coverImageDataURL
                               ELSE old.coverImage,
                !.updatedAt = t]

\* the record removed and pushed back at the end
assignAtEnd(books, bookIndex, b) ==
    SubSeq(books, 1, bookIndex - 1) \o SubSeq(books, bookIndex + 1, Len(books))
        \o <<b>>

\* books[bookIndex] = ...
assign(books, bookIndex, b) == [books EXCEPT ![bookIndex] = b]

\* the reference list: Update replaces the record in place
RefUpdate(r, bookId, b) ==
    [i \in 1..Len(r) |->
        IF r[i].id = bookId /\ \A j \in 1..(i - 1) : r[j].id # bookId
        THEN b ELSE r[i]]

\* books.findIndex on a value that is not an array throws a TypeError
updateBook(errs, bookId, title, author, file, coverImageDataURL, pend) ==
    LET books == getBooks(storage)
        bookIndex == IF IsArray(storage) THEN FindIndex(books, bookId) ELSE 0
        Failed(e) ==
            /\ errors' = e
            /\ last' = Outcome("update", "false", bookId, title, author, file,
                               coverImageDataURL, FALSE, FALSE, bookIndex # 0)
            /\ UNCHANGED <<storage, now, cards, ref, tabs>>
    IN /\ pending' = pend
       /\ UNCHANGED <<modalBookId, editForm, tabs>>
       /\ IF ~validateBookTitle(title).valid
          THEN Failed(showError(errs, "edit-title-error",
                                validateBookTitle(title).error))
          ELSE IF ~validateBookAuthor(author).valid
          THEN Failed(showError(errs, "edit-author-error",
                                validateBookAuthor(author).error))
          ELSE IF ~IsArray(storage)
          THEN /\ errors' = errs
               /\ last' = Threw("update", bookId, title, author, file,
                                coverImageDataURL)
               /\ UNCHANGED <<storage, now, cards, ref, tabs>>
          ELSE IF bookIndex = 0
          THEN Failed(showError(errs, "edit-cover-error", ErrNotFound))
          ELSE \E t \in DateNow(now), setFails \in BOOLEAN :
                 LET b == updatedBook(books[bookIndex], title, author,
                                      coverImageDataURL, t)
                     slot == saveBooks(storage, assign(books, bookIndex, b),
                                       setFails)
                 IN /\ storage' = slot
                    /\ now' = t
                    /\ cards' = displayBooks(slot)
                    /\ errors' = errs
                    /\ last' = Outcome("update", "true", bookId, title,
                                       author, file, coverImageDataURL, TRUE,
                                       ~setFails, TRUE)
                    /\ ref' = IF setFails THEN ref ELSE RefUpdate(ref, bookId, b)

\* updateBook called by a holder of any id, with or without a cover
\* Calls: the <<title, author, coverImageDataURL>> it may be called with
UpdateBookCall(Calls) ==
    \E bookId \in BookIds, c \in Calls :
        updateBook(errors, bookId, c[1], c[2], NullFile, c[3], pending)

(***************************************************************************)
(* The edit modal and the submit handler of edit-book-form.                *)
(***************************************************************************)
UiOutcome(op, bookId) ==
    Outcome(op, "none", bookId, <<>>, <<>>, NullFile, <<>>, FALSE, FALSE, FALSE)

OpenEditModal ==
    \E i \in 1..Len(cards) :
        /\ editForm' = [bookId |-> cards[i].id,
                        existingImage |-> IF Truthy(cards[i].coverImage)
                                          THEN cards[i].coverImage ELSE <<>>]
        /\ errors' = clearError(clearError(clearError(errors,
                        "edit-title-error"), "edit-author-error"),
                        "edit-cover-error")
        /\ last' = UiOutcome("openEditModal", cards[i].id)
        /\ UNCHANGED <<storage, now, cards, modalBookId, pending, ref, tabs>>

removeEditImagePreview ==
    /\ editForm' = [editForm EXCEPT !.existingImage = <<>>]
    /\ errors' = clearError(errors, "edit-cover-error")
    /\ last' = UiOutcome("removeEditImagePreview", editForm.bookId)
    /\ UNCHANGED <<storage, now, cards, modalBookId, pending, ref, tabs>>

\* a handler that passes a missing cover on to updateBook
SubmitEditOnAnyCover(title, author, imageFile) ==
    LET bookId == editForm.bookId
        e1 == Report(errors, "edit-title-error", validateBookTitle(title))
        e2 == Report(e1, "edit-author-error", validateBookAuthor(author))
        isValid == validateBookTitle(title).valid
                   /\ validateBookAuthor(author).valid
        Rejected(e) ==
            /\ errors' = e
            /\ last' = Outcome("submitEdit", "invalid", bookId, title, author,
                               imageFile, <<>>, FALSE, FALSE, FALSE)
            /\ UNCHANGED <<storage, now, cards, modalBookId, editForm,
                           pending, ref, tabs>>
    IN IF ~isValid THEN Rejected(e2)
       ELSE IF ~imageFile.isNull
       THEN IF ~validateImageFile(imageFile).valid
            THEN Rejected(showError(e2, "edit-cover-error",
                                    validateImageFile(imageFile).error))
            ELSE /\ Len(pending) < MaxPending
                 /\ errors' = e2
                 /\ pending' = Append(pending, Suspended("edit", bookId, title,
                                                        author, imageFile))
                 /\ last' = Outcome("submitEdit", "pending", bookId, title,
                                    author, imageFile, <<>>, FALSE, FALSE, FALSE)
                 /\ UNCHANGED <<storage, now, cards, modalBookId, editForm,
                                ref, tabs>>
       ELSE updateBook(clearError(e2, "edit-cover-error"), bookId, title,
                       author, imageFile, editForm.existingImage, pending)

SubmitEditWithin(room, title, author, imageFile) ==
    LET bookId == editForm.bookId
        e1 == Report(errors, "edit-title-error", validateBookTitle(title))
        e2 == Report(e1, "edit-author-error", validateBookAuthor(author))
        isValid == validateBookTitle(title).valid
                   /\ validateBookAuthor(author).valid
        Rejected(e) ==
            /\ errors' = e
            /\ last' = Outcome("submitEdit", "invalid", bookId, title, author,
                               imageFile, <<>>, FALSE, FALSE, FALSE)
            /\ UNCHANGED <<storage, now, cards, modalBookId, editForm,
                           pending, ref, tabs>>
    IN IF ~isValid THEN Rejected(e2)
       ELSE IF ~imageFile.isNull
       THEN IF ~validateImageFile(imageFile).valid
            THEN Rejected(showError(e2, "edit-cover-error",
                                    validateImageFile(imageFile).error))
            ELSE /\ Len(pending) < room
                 /\ errors' = e2
                 /\ pending' = Append(pending, Suspended("edit", bookId, title,
                                                        author, imageFile))
                 /\ last' = Outcome("submitEdit", "pending", bookId, title,
                                    author, imageFile, <<>>, FALSE, FALSE, FALSE)
                 /\ UNCHANGED <<storage, now, cards, modalBookId, editForm,
                                ref, tabs>>
       ELSE IF Truthy(editForm.existingImage)
       THEN updateBook(clearError(e2, "edit-cover-error"), bookId, title,
                       author, imageFile, editForm.existingImage, pending)
       ELSE Rejected(showError(e2, "edit-cover-error", ErrCoverRequired))

SubmitEditOn(title, author, imageFile) ==
    SubmitEditWithin(MaxPending, title, author, imageFile)

SubmitEdit(Inputs) ==
    \E in \in Inputs : SubmitEditOn(in[1], in[2], in[3])

\* the same handler, with several submissions waiting at once
SubmitEditSeveral(Inputs) ==
    \E in \in Inputs : SubmitEditWithin(MaxSuspended, in[1], in[2], in[3])

EditFileLoaded ==
    \E i \in 1..Len(pending) :
        /\ pending[i].kind = "edit"
        /\ updateBook(clearError(errors, "edit-cover-error"),
                      pending[i].bookId, pending[i].title, pending[i].author,
                      pending[i].file, DataURL(pending[i].file),
                      RemoveAt(pending, i))

\* a catch that shows the error and lets the handler go on to save
EditFileFailedGoesOn ==
    \E i \in 1..Len(pending) :
        LET books == getBooks(storage)
            bookIndex == FindIndex(books, pending[i].bookId)
            slot == IF bookIndex = 0 THEN storage
                    ELSE saveBooks(storage,
                             assign(books, bookIndex,
                                 updatedBook(books[bookIndex], pending[i].title,
                                             pending[i].author, <<>>, now)),
                             FALSE)
        IN /\ pending[i].kind = "edit"
           /\ storage' = slot
           /\ cards' = displayBooks(slot)
           /\ ref' = getBooks(slot)
           /\ errors' = showError(errors, "edit-cover-error", ErrCoverLoad)
           /\ pending' = RemoveAt(pending, i)
           /\ last' = Outcome("submitEdit", "aborted", pending[i].bookId,
                              pending[i].title, pending[i].author,
                              pending[i].file, <<>>, FALSE, FALSE, FALSE)
           /\ UNCHANGED <<now, modalBookId, editForm, tabs>>

EditFileFailed ==
    \E i \in 1..Len(pending) :
        /\ pending[i].kind = "edit"
        /\ errors' = showError(errors, "edit-cover-error", ErrCoverLoad)
        /\ pending' = RemoveAt(pending, i)
        /\ last' = Outcome("submitEdit", "aborted", pending[i].bookId,
                           pending[i].title, pending[i].author,
                           pending[i].file, <<>>, FALSE, FALSE, FALSE)
        /\ UNCHANGED <<storage, now, cards, modalBookId, editForm, ref, tabs>>

(***************************************************************************)
(* deleteBook and the delete confirmation.                                 *)
(***************************************************************************)
\* the reference list: Delete removes the record
RefDelete(r, bookId) == SelectSeq(r, LAMBDA b : ~(b.id = bookId))

\* a note on the suspended Update handlers: the record they are about to
\* update has been deleted since they were submitted
Gone(q, bookId) ==
    [i \in 1..Len(q) |->
        IF q[i].kind = "edit" /\ q[i].bookId = bookId
        THEN [q[i] EXCEPT !.gone = TRUE] ELSE q[i]]

\* books.filter on a value that is not an array throws a TypeError, and
\* the modal is left open
deleteBook(bookId) ==
    \E setFails \in BOOLEAN :
        IF ~IsArray(storage)
        THEN /\ last' = Threw("delete", bookId, <<>>, <<>>, NullFile, <<>>)
             /\ UNCHANGED <<storage, now, cards, modalBookId, editForm, errors,
                            pending, ref, tabs>>
        ELSE
        LET books == getBooks(storage)
            updatedBooks == FilterOut(books, bookId)
            slot == saveBooks(storage, updatedBooks, setFails)
        IN /\ storage' = slot
           /\ cards' = displayBooks(slot)
           /\ modalBookId' = NoId
           /\ last' = Outcome("delete", "none", bookId, <<>>, <<>>, NullFile,
                              <<>>, TRUE, ~setFails,
                              FindIndex(books, bookId) # 0)
           /\ ref' = IF setFails THEN ref ELSE RefDelete(ref, bookId)
           /\ pending' = IF ~setFails /\ FindIndex(books, bookId) # 0
                         THEN Gone(pending, bookId) ELSE pending
           /\ UNCHANGED <<now, editForm, errors, tabs>>

\* deleteBook called by a holder of any id
DeleteBookCall == \E bookId \in BookIds : deleteBook(bookId)

\* without the return on a book that is not found
openDeleteConfirmModalAny ==
    \E bookId \in BookIds :
        /\ modalBookId' = bookId
        /\ last' = UiOutcome("openDeleteConfirmModal", bookId)
        /\ UNCHANGED <<storage, now, cards, editForm, errors, pending, ref, tabs>>

openDeleteConfirmModal ==
    \E bookId \in BookIds :
        /\ modalBookId' = IF FindIndex(getBooks(storage), bookId) = 0
                          THEN modalBookId ELSE bookId
        /\ last' = UiOutcome("openDeleteConfirmModal", bookId)
        /\ UNCHANGED <<storage, now, cards, editForm, errors, pending, ref, tabs>>

closeDeleteConfirmModal ==
    /\ modalBookId' = NoId
    /\ last' = UiOutcome("closeDeleteConfirmModal", NoId)
    /\ UNCHANGED <<storage, now, cards, editForm, errors, pending, ref, tabs>>

\* the click listener of confirm-delete-btn
ConfirmDelete ==
    IF Truthy(modalBookId)
    THEN deleteBook(modalBookId)
    ELSE /\ last' = UiOutcome("confirmDelete", NoId)
         /\ UNCHANGED <<storage, now, cards, modalBookId, editForm, errors,
                        pending, ref, tabs>>

(***************************************************************************)
(* Two pages on the same key.  A page runs addBook or deleteBook up to the  *)
(* array it is about to save (getItem, then push or filter), and saves it  *)
(* in a later step (setItem, then displayBooks): the other page may run    *)
(* between the two.                                                        *)
(***************************************************************************)
\* addBook from getBooks() to books.push(newBook)
TabAddGet(w, Adds) ==
    \E in \in Adds, r \in RandomSuffix :
    \E t1 \in DateNow(now) : \E t2 \in DateNow(t1) : \E t3 \in DateNow(t2) :
        LET books == getBooks(storage)
            b == newBook(generateBookId(t1, r), in[1], in[2], DataURL(in[3]),
                         t2, t3)
        IN /\ tabs[w].pc = "idle"
           /\ Len(books) < MaxBooks
           /\ tabs' = [tabs EXCEPT ![w] =
                         [pc |-> "read", op |-> "add", bookId |-> b.id,
                          title |-> in[1], author |-> in[2],
                          cover |-> DataURL(in[3]), books |-> push(books, b),
                          had |-> FindIndex(books, b.id) # 0,
                          saved |-> FALSE, cards |-> tabs[w].cards]]
           /\ now' = t3
           /\ last' = UiOutcome("getItem", b.id)
           /\ UNCHANGED <<storage, cards, modalBookId, editForm, errors,
                          pending, ref>>

\* deleteBook from getBooks() to books.filter
TabDeleteGet(w) ==
    \E bookId \in BookIds :
        LET books == getBooks(storage)
        IN /\ tabs[w].pc = "idle"
           /\ tabs' = [tabs EXCEPT ![w] =
                         [pc |-> "read", op |-> "delete", bookId |-> bookId,
                          title |-> <<>>, author |-> <<>>, cover |-> <<>>,
                          books |-> FilterOut(books, bookId),
                          had |-> FindIndex(books, bookId) # 0,
                          saved |-> FALSE, cards |-> tabs[w].cards]]
           /\ last' = UiOutcome("getItem", bookId)
           /\ UNCHANGED <<storage, now, cards, modalBookId, editForm, errors,
                          pending, ref>>

\* the array a page would save if it read the slot again before saving
SavedMerged(tab, slot) ==
    IF tab.op = "add"
    THEN push(getBooks(slot), tab.books[Len(tab.books)])
    ELSE FilterOut(getBooks(slot), tab.bookId)

\* the array a page saves: the one it has been working on
Saved(tab, slot) == tab.books

\* saveBooks(books) and displayBooks() of addBook and of deleteBook
TabSet(w) ==
    \E setFails \in BOOLEAN :
        LET tab == tabs[w]
            slot == saveBooks(storage, Saved(tab, storage), setFails)
        IN /\ tab.pc = "read"
           /\ storage' = slot
           /\ tabs' = [tabs EXCEPT ![w] = Idle(displayBooks(slot), tab.op,
                                               tab.bookId, ~setFails)]
           /\ last' = Outcome(tab.op, IF tab.op = "add" THEN "true" ELSE "none",
                              tab.bookId, tab.title, tab.author, NullFile,
                              tab.cover, TRUE, ~setFails, tab.had)
           /\ UNCHANGED <<now, cards, modalBookId, editForm, errors, pending,
                          ref>>

(***************************************************************************)
(* The slot seen from outside the page: List, and the other scripts of the *)
(* origin, which may leave any string under the key.                       *)
(***************************************************************************)
\* a caller takes what getBooks returns
\* a read that writes the array it has read back to the slot
ListCallRepairs ==
    /\ storage' = TextSlot(JSONStringify(getBooks(storage)))
    /\ last' = Outcome("list", "array", NoId, <<>>, <<>>, NullFile, <<>>,
                       FALSE, FALSE, FALSE)
    /\ UNCHANGED <<now, cards, modalBookId, editForm, errors, pending, ref,
                   tabs>>

ListCall ==
    /\ last' = Outcome("list", IF IsArray(storage) THEN "array" ELSE "value",
                       NoId, <<>>, <<>>, NullFile, <<>>, FALSE, FALSE, FALSE)
    /\ UNCHANGED <<storage, now, cards, modalBookId, editForm, errors,
                   pending, ref, tabs>>

\* displayBooks called on its own, as init does
DisplayBooksCall ==
    /\ cards' = displayBooks(storage)
    /\ last' = UiOutcome("displayBooks", NoId)
    /\ UNCHANGED <<storage, now, modalBookId, editForm, errors, pending, ref,
                   tabs>>

\* Contents: the slots the key may be found to hold
StorageChanged(Contents) ==
    \E slot \in Contents :
        /\ slot # storage
        /\ storage' = slot
        /\ ref' = IF IsArray(slot) THEN getBooks(slot) ELSE <<>>
        /\ last' = UiOutcome("storageChanged", NoId)
        /\ UNCHANGED <<now, cards, modalBookId, editForm, errors, pending, tabs>>

(***************************************************************************)
(* Inputs and the specification.                                           *)
(***************************************************************************)
TDune == <<" ", "D", "u", "n", "e", " ">>
TEmma == <<"E", "m", "m", "a">>
AHerbert == <<"\t", "F", ".", "H">>
AAusten == <<"J", ".", "A", " ">>
ImagePng == <<"i", "m", "a", "g", "e", "/", "p", "n", "g">>
PngA == File(ImagePng, 1024, <<"A">>)
PngB == File(ImagePng, 2048, <<"B">>)

\* what the user submits in the forms, and what updateBook is called with
Inputs == {<<TDune, AHerbert, PngA>>, <<TEmma, AAusten, PngB>>}
Calls == {<<TEmma, AAusten, <<>>>>, <<TDune, AHerbert, DataURL(PngB)>>}

\* one submission and one call, for the specifications that vary the slot
OneInput == {<<TDune, AHerbert, PngA>>}
OneCall == {<<TEmma, AAusten, <<>>>>}

StoredDune ==
    Book(generateBookId(0, 0), Trim(TDune), Trim(AHerbert), DataURL(PngA), 0, 0)

\* the text of a saved library, damaged so that JSON.parse throws: val keeps
\* what the text held
DamagedDune == MalformedSlot(JSONStringify(<<StoredDune>>))

SlotContents ==
    {AbsentSlot, EmptySlot, DamagedDune, ValueSlot(JsNull),
     ValueSlot(JsObject), ValueSlot(JsNumber), TextSlot(JSONStringify(<<>>)),
     TextSlot(JSONStringify(<<StoredDune>>))}

\* the boundary inputs of the forms
T200 == Rep("a", 200)
T201 == Rep("a", 201)
T200Padded == <<" ">> \o T200 \o <<"\n">>
TBlank == <<" ", "\t">>
A100 == Rep("b", 100)
A101 == Rep("b", 101)
A100Padded == <<"\t", " ">> \o A100 \o <<" ">>
ABlank == <<"\n">>
TextPlain == <<"t", "e", "x", "t", "/", "p", "l", "a", "i", "n">>
PngMax == File(ImagePng, maxSize, <<"M">>)
PngOver == File(ImagePng, maxSize + 1, <<"O">>)
TextFile == File(TextPlain, 1024, <<"T">>)

FormInputs ==
    {<<T200Padded, A100Padded, PngMax>>, <<T200, A100, PngA>>,
     <<<<>>, AHerbert, PngA>>, <<T201, A100, PngMax>>, <<TBlank, A100, PngA>>,
     <<T200, A101, PngMax>>, <<T200, <<>>, PngA>>, <<TDune, ABlank, PngA>>,
     <<T200, A100, NullFile>>, <<TDune, AHerbert, TextFile>>,
     <<TDune, AHerbert, PngOver>>,
     <<<<>>, <<>>, PngMax>>, <<T201, A100, PngOver>>, <<T200, A101, TextFile>>,
     <<TBlank, ABlank, NullFile>>}

\* every handler and entry point of the page
Next ==
    \/ SubmitAdd(Inputs)
    \/ AddFileLoaded
    \/ AddFileFailed
    \/ OpenEditModal
    \/ removeEditImagePreview
    \/ SubmitEdit(Inputs)
    \/ EditFileLoaded
    \/ EditFileFailed
    \/ UpdateBookCall(Calls)
    \/ openDeleteConfirmModal
    \/ closeDeleteConfirmModal
    \/ ConfirmDelete
    \/ DeleteBookCall

Spec == Init /\ [][Next]_vars

\* the Library Store: Add through its form, Update and Delete by their
\* entry points with any id
NextStore ==
    \/ SubmitAdd(Inputs)
    \/ AddFileLoaded
    \/ AddFileFailed
    \/ UpdateBookCall(Calls)
    \/ DeleteBookCall

SpecStore == Init /\ [][NextStore]_vars

\* the add form with the boundary inputs
NextForms ==
    \/ SubmitAdd(FormInputs)
    \/ AddFileLoaded
    \/ AddFileFailed

SpecForms == Init /\ [][NextForms]_vars

\* what is submitted in the edit form and what updateBook is called with
EditInputs ==
    {<<TEmma, AAusten, NullFile>>, <<T200Padded, A100Padded, PngB>>,
     <<T201, A101, PngOver>>, <<TEmma, AAusten, PngOver>>}

\* updateBook called with a title or an author that its caller did not check
BadCalls == {<<T201, AAusten, <<>>>>, <<TEmma, A101, <<>>>>}

\* the two forms and the edit modal
NextEdit ==
    \/ SubmitAdd(OneInput)
    \/ AddFileLoaded
    \/ AddFileFailed
    \/ OpenEditModal
    \/ removeEditImagePreview
    \/ SubmitEdit(EditInputs)
    \/ EditFileLoaded
    \/ EditFileFailed

SpecEdit == Init /\ [][NextEdit]_vars

\* Update by its form and by its entry point, the image reader never failing
NextUpdate ==
    \/ SubmitAdd(OneInput)
    \/ AddFileLoaded
    \/ OpenEditModal
    \/ removeEditImagePreview
    \/ SubmitEdit(EditInputs)
    \/ EditFileLoaded
    \/ UpdateBookCall(BadCalls)

SpecUpdate == Init /\ [][NextUpdate]_vars

\* two pages adding and deleting on the same key
NextTabs ==
    \/ \E w \in Writers : TabAddGet(w, OneInput)
    \/ \E w \in Writers : TabDeleteGet(w)
    \/ \E w \in Writers : TabSet(w)

SpecTabs == Init /\ [][NextTabs]_vars

\* the Library Store over a slot that other scripts may have written
NextFaults ==
    \/ StorageChanged(SlotContents)
    \/ ListCall
    \/ SubmitAdd(OneInput)
    \/ AddFileLoaded
    \/ AddFileFailed
    \/ UpdateBookCall(OneCall)
    \/ DeleteBookCall

SpecFaults == Init /\ [][NextFaults]_vars

\* several submit handlers suspended on fileToDataURL at once, of both
\* forms, and deleteBook between them
SeveralEdits == {<<TEmma, AAusten, PngB>>}

NextSeveral ==
    \/ SubmitAddSeveral(OneInput)
    \/ AddFileLoaded
    \/ AddFileFailed
    \/ OpenEditModal
    \/ SubmitEditSeveral(SeveralEdits)
    \/ EditFileLoaded
    \/ EditFileFailed
    \/ DeleteBookCall

SpecSeveral == Init /\ [][NextSeveral]_vars

\* the delete confirmation: the delete button of a card, the cancel and X
\* buttons, the backdrop and the Escape key, and the confirm button
NextConfirm ==
    \/ SubmitAdd(Inputs)
    \/ AddFileLoaded
    \/ openDeleteConfirmModal
    \/ closeDeleteConfirmModal
    \/ ConfirmDelete

SpecConfirm == Init /\ [][NextConfirm]_vars

\* the operations that read or validate next to those that write:
\* submissions that pass and submissions that are rejected, of both forms,
\* updateBook on ids the library may not hold, and the delete confirmation
FrameAdds == {<<TDune, AHerbert, PngA>>, <<TBlank, AHerbert, PngA>>}
FrameEdits == {<<TEmma, AAusten, NullFile>>, <<TEmma, A101, NullFile>>}

NextFrame ==
    \/ ListCall
    \/ DisplayBooksCall
    \/ SubmitAdd(FrameAdds)
    \/ AddFileLoaded
    \/ AddFileFailed
    \/ OpenEditModal
    \/ SubmitEdit(FrameEdits)
    \/ UpdateBookCall(OneCall)
    \/ openDeleteConfirmModal
    \/ ConfirmDelete

SpecFrame == Init /\ [][NextFrame]_vars

(***************************************************************************)
(* Vocabulary of the properties.                                           *)
(***************************************************************************)
\* List()
List == getBooks(storage)

HasId(bs, bookId) == \E j \in 1..Len(bs) : bs[j].id = bookId

NoDuplicateId(bs) ==
    \A i \in 1..Len(bs), j \in 1..Len(bs) : bs[i].id = bs[j].id => i = j

\* out is in without its leading and trailing white space
IsTrimOf(out, in) ==
    \E i \in 0..Len(in), j \in 0..Len(in) :
        /\ i + j <= Len(in)
        /\ out = SubSeq(in, i + 1, Len(in) - j)
        /\ \A k \in 1..i : in[k] \in WhiteSpace
        /\ \A k \in (Len(in) - j + 1)..Len(in) : in[k] \in WhiteSpace
        /\ out # <<>> => out[1] \notin WhiteSpace /\ out[Len(out)] \notin WhiteSpace

\* the position of the first record with the id, in a list that has one
Located(bs, bookId) ==
    CHOOSE i \in 1..Len(bs) :
        bs[i].id = bookId /\ \A j \in 1..(i - 1) : bs[j].id # bookId

(***************************************************************************)
(* C1.  An Add whose record was persisted leaves List one record longer:   *)
(* the earlier records are followed by a new record whose title and author *)
(* are the trimmed inputs and whose createdAt equals its updatedAt.        *)
(***************************************************************************)
C1_AddedRecord ==
    [][last'.op = "add" /\ last'.saved =>
        LET new == getBooks(storage')
        IN /\ Len(new) = Len(List) + 1
           /\ SubSeq(new, 1, Len(List)) = List
           /\ IsTrimOf(new[Len(new)].title, last'.title)
           /\ IsTrimOf(new[Len(new)].author, last'.author)
           /\ new[Len(new)].createdAt = new[Len(new)].updatedAt]_vars

(***************************************************************************)
(* C2.  List is the reference list built from the persisted mutations (Add *)
(* appends, Update replaces in place, Delete removes), in insertion order, *)
(* and no id occurs twice in it.                                           *)
(***************************************************************************)
C2_ListIsReference == List = ref /\ NoDuplicateId(List)

(***************************************************************************)
(* C3.  No two records of the persisted library have the same id.          *)
(***************************************************************************)
C3_UniqueIds == NoDuplicateId(List)

C5_UpdateNotFound ==
    [][last'.op = "update" /\ ~HasId(List, last'.bookId) =>
        /\ last'.ret = "false"
        /\ ~last'.wrote
        /\ storage' = storage
        /\ getBooks(storage') = List
        /\ (validateBookTitle(last'.title).valid
            /\ validateBookAuthor(last'.author).valid
            => errors'["edit-cover-error"] = ErrNotFound)]_vars

C5_Witness ==
    /\ last.op = "update" /\ last.ret = "false"
    /\ Len(List) > 0
    /\ ~HasId(List, last.bookId)
    /\ errors["edit-cover-error"] = ErrNotFound

C9_UpdatedRecord ==
    [][last'.op = "update" /\ last'.saved =>
        LET i == Located(List, last'.bookId)
            new == getBooks(storage')
        IN /\ HasId(List, last'.bookId)
           /\ IsTrimOf(new[i].title, last'.title)
           /\ IsTrimOf(new[i].author, last'.author)
           /\ new[i].coverImage = IF last'.cover # <<>> THEN last'.cover
                                  ELSE List[i].coverImage
           /\ new[i].updatedAt = now'
           /\ now' >= now
           /\ storage'.kind = "text"
           /\ Len(storage'.val) = Len(List)
           /\ last'.ret = "true"]_vars

C9_Witness ==
    /\ last.op = "update" /\ last.saved
    /\ last.cover = <<>>
    /\ Len(List) = 2
    /\ \E i \in 1..2 : /\ List[i].id = last.bookId
                       /\ List[i].coverImage # <<>>
                       /\ List[i].updatedAt > List[i].createdAt
                       /\ List[i].title # last.title

(***************************************************************************)
(* C10.  An Update that was persisted leaves the id and the createdAt of   *)
(* the located record, and the number, order and content of all the other  *)
(* records, as they were.                                                  *)
(***************************************************************************)
C10_UpdateFrame ==
    [][last'.op = "update" /\ last'.saved =>
        LET i == Located(List, last'.bookId)
            new == getBooks(storage')
        IN /\ Len(new) = Len(List)
           /\ new[i].id = List[i].id
           /\ new[i].createdAt = List[i].createdAt
           /\ \A j \in 1..Len(List) : j # i => new[j] = List[j]]_vars

C10_Witness ==
    /\ last.op = "update" /\ last.saved
    /\ Len(List) = 2
    /\ List[2].id = last.bookId
    /\ List[1].id # last.bookId
    /\ List[1].title # List[2].title

(***************************************************************************)
(* C7.  An Add submission with an invalid field shows a message for every  *)
(* invalid field and for no valid one, does not go on to addBook and       *)
(* leaves the persisted library as it was; Add("", "Author") shows a title *)
(* message and leaves the length of List unchanged.                        *)
(***************************************************************************)
InvalidTitles == {<<>>, TBlank, T201}
InvalidAuthors == {<<>>, ABlank, A101}
InvalidFiles == {NullFile, TextFile, PngOver}

SomeInvalid(o) ==
    o.title \in InvalidTitles \/ o.author \in InvalidAuthors
        \/ o.file \in InvalidFiles

C7_EveryInvalidField ==
    [][last'.op = "submitAdd" /\ last'.ret # "aborted" /\ SomeInvalid(last') =>
        /\ errors'["title-error"] # "" <=> last'.title \in InvalidTitles
        /\ errors'["author-error"] # "" <=> last'.author \in InvalidAuthors
        /\ errors'["cover-error"] # "" <=> last'.file \in InvalidFiles
        /\ last'.ret = "invalid"
        /\ pending' = pending
        /\ storage' = storage
        /\ (last'.title = <<>> /\ last'.author = AHerbert
            => /\ errors'["title-error"] = ErrTitleRequired
               /\ Len(getBooks(storage')) = Len(List))]_vars

C7_Witness ==
    /\ last.op = "submitAdd" /\ last.ret = "invalid"
    /\ last.title \in InvalidTitles /\ last.file \in InvalidFiles
    /\ last.author \notin InvalidAuthors
    /\ errors["title-error"] # "" /\ errors["cover-error"] # ""
    /\ errors["author-error"] = ""
    /\ Len(List) = 1

(***************************************************************************)
(* C8.  A title of trimmed length 200 is accepted and one of 201 rejected  *)
(* with the length message; an author of trimmed length 100 is accepted    *)
(* and one of 101 rejected; the empty and the blank string are rejected;   *)
(* the limits bound the trimmed length, not the raw length.                *)
(***************************************************************************)
C8_LengthLimits ==
    last.op = "submitAdd" /\ last.ret # "aborted" =>
        /\ last.title \in {T200, T200Padded} => errors["title-error"] = ""
        /\ last.title = T201 => errors["title-error"] = ErrTitleTooLong
        /\ last.title \in {<<>>, TBlank} => errors["title-error"] # ""
        /\ last.author \in {A100, A100Padded} => errors["author-error"] = ""
        /\ last.author = A101 => errors["author-error"] = ErrAuthorTooLong
        /\ last.author \in {<<>>, ABlank} => errors["author-error"] # ""

C8_Witness ==
    /\ last.op = "submitAdd" /\ last.ret = "pending"
    /\ last.title = T200Padded /\ Len(last.title) > MaxTitleLength
    /\ last.author = A100Padded /\ Len(last.author) > MaxAuthorLength
    /\ errors["title-error"] = "" /\ errors["author-error"] = ""

C13_ListFailsClosed ==
    last.op = "list" =>
        /\ last.ret = "array"
        /\ IsArray(storage)
        /\ (storage.kind # "text" => getBooks(storage) = <<>>)

(***************************************************************************)
(* C14.  An Add, Update or Delete whose set failed reports a fault to its  *)
(* caller instead of the value it returns on success, and leaves the slot  *)
(* as it was.                                                              *)
(***************************************************************************)
C14_WriteFaultReported ==
    [][last'.wrote /\ ~last'.saved =>
        /\ last'.ret \notin {"true", "none"}
        /\ storage' = storage]_vars

(***************************************************************************)
(* C18.  Whatever the slot holds and whatever the storage provider and the *)
(* image reader do, List, Add, Update and Delete return to their caller    *)
(* and none of them ends by an uncaught exception.                         *)
(***************************************************************************)
C18_NothingThrows == last.ret # "threw"

(***************************************************************************)
(* C15.  When fileToDataURL fails during an Add or an Update submission,   *)
(* the handler ends there: the suspended submission is dropped without     *)
(* going on to addBook or updateBook, the slot, the clock and the cards    *)
(* are as they were, and the cover field of the form shows the load error. *)
(***************************************************************************)
C15_ReadFaultAborts ==
    [][last'.ret = "aborted" =>
        /\ last'.op \in {"submitAdd", "submitEdit"}
        /\ ~last'.wrote
        /\ storage' = storage
        /\ now' = now
        /\ cards' = cards
        /\ Len(pending') = Len(pending) - 1
        /\ errors'[IF last'.op = "submitAdd" THEN "cover-error"
                   ELSE "edit-cover-error"] = ErrCoverLoad]_vars

C15_Witness ==
    /\ last.op = "submitEdit" /\ last.ret = "aborted"
    /\ last.title = T200Padded
    /\ errors["edit-cover-error"] = ErrCoverLoad
    /\ pending = <<>>
    /\ \E i \in 1..Len(List) : /\ List[i].id = last.bookId
                               /\ List[i].title = Trim(TDune)

(***************************************************************************)
(* C17.  In every state reached through the two submit handlers, every     *)
(* record of the persisted library has a title of 1 to 200 characters and  *)
(* an author of 1 to 100 characters, neither starting nor ending with      *)
(* white space.                                                            *)
(***************************************************************************)
Trimmed(str) == str[1] \notin WhiteSpace /\ str[Len(str)] \notin WhiteSpace

C17_StoredFieldsInRange ==
    \A i \in 1..Len(List) :
        /\ Len(List[i].title) \in 1..MaxTitleLength
        /\ Len(List[i].author) \in 1..MaxAuthorLength
        /\ Trimmed(List[i].title)
        /\ Trimmed(List[i].author)

C17_Witness ==
    /\ last.op = "update" /\ last.saved
    /\ last.title = T200Padded /\ last.author = A100Padded
    /\ \E i \in 1..Len(List) : /\ List[i].id = last.bookId
                               /\ List[i].title = T200
                               /\ List[i].author = A100

(***************************************************************************)
(* C20.  An Update submission whose title or author is invalid by the      *)
(* rules of Add (201 characters, 101 characters; 200 and 100 after         *)
(* trimming pass), whose new file is not an acceptable image, or that has  *)
(* neither a new file nor an existing image, shows a message on the field  *)
(* concerned and leaves the persisted library as it was; updateBook itself *)
(* rejects an invalid title or author the same way, and is never reached   *)
(* from the form without a cover.                                          *)
(***************************************************************************)
BadCover(file, existingImage) ==
    file \in {TextFile, PngOver} \/ (file.isNull /\ existingImage = <<>>)

C20_UpdateRejected ==
    [][LET badTitle == last'.title \in InvalidTitles
           badAuthor == last'.author \in InvalidAuthors
           badCover == BadCover(last'.file, editForm.existingImage)
       IN /\ last'.op = "submitEdit" /\ last'.ret # "aborted" =>
              /\ last'.title = T201 => errors'["edit-title-error"] = ErrTitleTooLong
              /\ last'.title = T200Padded => errors'["edit-title-error"] = ""
              /\ last'.author = A101 => errors'["edit-author-error"] = ErrAuthorTooLong
              /\ last'.author = A100Padded => errors'["edit-author-error"] = ""
              /\ (~badTitle /\ ~badAuthor /\ last'.file = PngOver
                  => errors'["edit-cover-error"] = ErrCoverSize)
              /\ (~badTitle /\ ~badAuthor /\ last'.file.isNull
                  => errors'["edit-cover-error"] = ErrCoverRequired)
              /\ (badTitle \/ badAuthor \/ badCover
                  => /\ last'.ret = "invalid"
                     /\ storage' = storage
                     /\ pending' = pending)
          /\ last'.op = "update" =>
              /\ last'.title = T201 => errors'["edit-title-error"] = ErrTitleTooLong
              /\ (~badTitle /\ last'.author = A101
                  => errors'["edit-author-error"] = ErrAuthorTooLong)
              /\ (badTitle \/ badAuthor
                  => /\ last'.ret = "false"
                     /\ ~last'.wrote
                     /\ storage' = storage)
              /\ (last'.saved => last'.cover # <<>>)]_vars

C20_Witness ==
    /\ last.op = "submitEdit" /\ last.ret = "invalid"
    /\ last.title = TEmma /\ last.author = AAusten /\ last.file = NullFile
    /\ editForm.bookId # NoId /\ editForm.existingImage = <<>>
    /\ errors["edit-cover-error"] = ErrCoverRequired
    /\ \E i \in 1..Len(List) : /\ List[i].id = last.bookId
                               /\ List[i].title = Trim(TDune)

(***************************************************************************)
(* C19.  An Add submission without a file, with a file whose type does not *)
(* start with image/, or with an image of 5 * 1024 * 1024 + 1 bytes shows  *)
(* the matching message on the cover field and goes no further; an image   *)
(* of exactly 5 * 1024 * 1024 bytes passes; and only a submission whose    *)
(* cover passed is suspended on the reader or reaches addBook.             *)
(***************************************************************************)
C19_CoverValidation ==
    /\ last.op = "submitAdd" /\ last.ret # "aborted" =>
        /\ last.file.isNull => errors["cover-error"] = ErrCoverRequired
        /\ last.file = TextFile => errors["cover-error"] = ErrCoverType
        /\ last.file = PngOver => errors["cover-error"] = ErrCoverSize
        /\ last.file = PngMax => errors["cover-error"] = ""
        /\ last.file \in InvalidFiles => last.ret = "invalid"
    /\ last.op = "add" =>
        /\ ~last.file.isNull
        /\ StartsWith(last.file.type, ImagePrefix)
        /\ last.file.size <= 5 * 1024 * 1024
    /\ \A i \in 1..Len(pending) : pending[i].file \notin InvalidFiles

C19_Witness ==
    /\ last.op = "add" /\ last.saved
    /\ last.file = PngMax /\ last.file.size = 5242880
    /\ PngOver.size = 5242881
    /\ List[Len(List)].coverImage = DataURL(PngMax)

(***************************************************************************)
(* C16.  With two pages on the same key, the slot changes only by a set    *)
(* and then holds exactly the array that page had built from its own       *)
(* earlier read, whatever the other page has stored since (the last writer *)
(* wins); so a state is reachable in which two Adds were both stored and   *)
(* List holds only the record of the second.                               *)
(***************************************************************************)
C16_LastWriterWins ==
    [][/\ storage' # storage =>
            \E w \in Writers : /\ tabs[w].pc = "read" /\ tabs'[w].pc = "idle"
                               /\ storage' = TextSlot(JSONStringify(tabs[w].books))
       /\ \A w \in Writers :
            tabs[w].pc = "read" /\ tabs'[w].pc = "idle" /\ last'.saved =>
                /\ storage' = TextSlot(JSONStringify(tabs[w].books))
                /\ getBooks(storage') = tabs[w].books]_vars

C16_Witness ==
    /\ \A w \in Writers :
          tabs[w].pc = "idle" /\ tabs[w].op = "add" /\ tabs[w].saved
    /\ tabs[1].bookId # tabs[2].bookId
    /\ last.op = "add" /\ last.saved /\ last.bookId = tabs[2].bookId
    /\ Len(List) = 1
    /\ List[1].id = tabs[2].bookId
    /\ ~HasId(List, tabs[1].bookId)

(***************************************************************************)
(* Steps of the read-modify-write of addBook, updateBook and deleteBook,   *)
(* seen from the library before and after.                                 *)
(***************************************************************************)
\* new is old with the step's mutation applied to it, and nothing else
Applied(old, new, o) ==
    IF o.op = "add"
    THEN /\ Len(new) = Len(old) + 1
         /\ SubSeq(new, 1, Len(old)) = old
         /\ new[Len(new)].id = o.bookId
    ELSE IF o.op = "update"
    THEN /\ Len(new) = Len(old)
         /\ HasId(old, o.bookId)
         /\ new[Located(old, o.bookId)].title = Trim(o.title)
         /\ new[Located(old, o.bookId)].author = Trim(o.author)
         /\ \A j \in 1..Len(old) : j # Located(old, o.bookId) => new[j] = old[j]
    ELSE /\ o.op = "delete"
         /\ new = SelectSeq(old, LAMBDA b : b.id # o.bookId)

C22_DeletedStaysDeleted ==
    [][\A i \in 1..Len(pending) :
          /\ pending[i].kind = "edit" /\ pending[i].gone
          /\ last'.op = "update" /\ last'.bookId = pending[i].bookId
          /\ pending' = RemoveAt(pending, i)
          => /\ last'.ret = "false"
             /\ errors'["edit-cover-error"] = ErrNotFound
             /\ storage' = storage
             /\ ~HasId(getBooks(storage'), pending[i].bookId)]_vars

(***************************************************************************)
(* C23.  Through the delete confirmation, a record leaves the library only *)
(* in a confirm step whose pending id is that record's id, and a pending   *)
(* id is only ever put there by opening the confirmation for an id the     *)
(* library holds: opening it for an absent id stores nothing, every close  *)
(* and every completed delete clears the pending id, and a confirm with no *)
(* pending id leaves the library as it was.                                *)
(***************************************************************************)
C23_DeleteOnlyByConfirm ==
    [][LET new == getBooks(storage')
       IN /\ \A j \in 1..Len(List) :
                ~HasId(new, List[j].id) =>
                    /\ last'.op = "delete"
                    /\ Truthy(modalBookId)
                    /\ last'.bookId = modalBookId
                    /\ List[j].id = modalBookId
          /\ Len(new) < Len(List) => last'.op = "delete" /\ Truthy(modalBookId)
          /\ Truthy(modalBookId') /\ modalBookId' # modalBookId =>
                /\ last'.op = "openDeleteConfirmModal"
                /\ last'.bookId = modalBookId'
                /\ HasId(List, modalBookId')
          /\ last'.op = "openDeleteConfirmModal" /\ ~HasId(List, last'.bookId) =>
                modalBookId' = modalBookId /\ storage' = storage
          /\ last'.op \in {"closeDeleteConfirmModal", "delete"} =>
                modalBookId' = NoId
          /\ last'.op = "confirmDelete" =>
                ~Truthy(modalBookId) /\ storage' = storage]_vars

\* a confirm has removed the record whose confirmation was open, the
\* pending id is cleared and the other record is still there
C23_Witness ==
    /\ last.op = "delete" /\ last.saved /\ last.had
    /\ modalBookId = NoId
    /\ Len(List) = 1
    /\ List[1].id # last.bookId

(***************************************************************************)
(* C24.  A step that does not call saveBooks leaves the stored value as it *)
(* was; getBooks, displayBooks, openDeleteConfirmModal, the validation of  *)
(* a submission and every Add or Update that is rejected before its        *)
(* read-modify-write are such steps.  Only addBook, updateBook and         *)
(* deleteBook call saveBooks, each Add, Update or Delete that goes through *)
(* does, and what its one persisted write leaves in the slot is the text   *)
(* of the library before with that one mutation applied.                   *)
(***************************************************************************)
Mutations == {"add", "update", "delete"}

C24_OnlyMutationsWrite ==
    [][/\ ~last'.wrote => storage' = storage
       /\ last'.wrote => last'.op \in Mutations
       /\ last'.op \in {"list", "displayBooks", "openDeleteConfirmModal",
                         "openEditModal", "confirmDelete", "submitAdd",
                         "submitEdit"} => ~last'.wrote
       /\ last'.op \in Mutations =>
             /\ last'.ret = "false" => ~last'.wrote
             /\ last'.ret \in {"true", "none"} => last'.wrote
             /\ last'.saved =>
                   /\ storage' = TextSlot(JSONStringify(getBooks(storage')))
                   /\ Applied(List, getBooks(storage'), last')]_vars

\* an Add submission has just been rejected by the validation, with a
\* record in the slot that an earlier Add has written
C24_Witness ==
    /\ last.op = "submitAdd" /\ last.ret = "invalid" /\ ~last.wrote
    /\ storage.kind = "text"
    /\ Len(List) = 1

(***************************************************************************)
(* C25.  While the slot holds a text that JSON.parse rejects, although it  *)
(* holds records saved before, a read returns the empty array and changes  *)
(* nothing, and an Add whose write is persisted leaves in the slot the     *)
(* text of an array of one record, the new one: what the damaged text held *)
(* is overwritten, neither kept nor repaired.                              *)
(***************************************************************************)
C25_MalformedOverwritten ==
    [][storage.kind = "malformed" /\ storage.val # <<>> =>
        /\ List = <<>>
        /\ last'.op = "list" => last'.ret = "array" /\ storage' = storage
        /\ last'.op = "add" /\ last'.saved =>
              LET new == getBooks(storage')
              IN /\ Len(new) = 1
                 /\ new[1].id = last'.bookId
                 /\ new[1].title = Trim(last'.title)
                 /\ storage' = TextSlot(JSONStringify(<<new[1]>>))]_vars

\* the text of the library this page saved and still shows has been
\* damaged in the slot, a read has returned an array, and an Add submitted
\* since is about to resume
C25_Witness ==
    /\ storage = DamagedDune
    /\ cards = <<StoredDune>>
    /\ List = <<>>
    /\ last.op = "list" /\ last.ret = "array"
    /\ Len(pending) = 1 /\ pending[1].kind = "add"

====
